---- MODULE Spec2Model ----
(***************************************************************************)
(* A model of the parallel crawler of src/cpp/src/main.cpp: the URL        *)
(* utilities as operators on character sequences, and ParallelCrawler::run *)
(* with its workers as a state machine.                                    *)
(*                                                                         *)
(* A std::string is a sequence of one-character strings.                   *)
(***************************************************************************)
EXTENDS Integers, Sequences, FiniteSets, Bags, TLC

(***************************************************************************)
(* Characters and std::string primitives                                   *)
(***************************************************************************)
UpperAlpha == <<"A","B","C","D","E","F","G","H","I","J","K","L","M",
                "N","O","P","Q","R","S","T","U","V","W","X","Y","Z">>
LowerAlpha == <<"a","b","c","d","e","f","g","h","i","j","k","l","m",
                "n","o","p","q","r","s","t","u","v","w","x","y","z">>
Digits == {"0","1","2","3","4","5","6","7","8","9"}
Letters == {UpperAlpha[i] : i \in 1..26} \cup {LowerAlpha[i] : i \in 1..26}
Whitespace == {" ", "\t", "\n", "\r"}

\* std::tolower on one character
tolower(c) ==
    IF \E i \in 1..26 : UpperAlpha[i] = c
    THEN LowerAlpha[CHOOSE i \in 1..26 : UpperAlpha[i] = c]
    ELSE c

\* to_lower: std::transform with std::tolower over the whole string
to_lower(value) == [i \in 1..Len(value) |-> tolower(value[i])]

\* std::string::find(char): the first position of c in s, 0 for npos
find(s, c) ==
    IF \E i \in 1..Len(s) : s[i] = c
    THEN CHOOSE i \in 1..Len(s) : s[i] = c /\ \A j \in 1..(i-1) : s[j] # c
    ELSE 0

\* std::string::find_last_of(char): the last position of c in s, 0 for npos
find_last_of(s, c) ==
    IF \E i \in 1..Len(s) : s[i] = c
    THEN CHOOSE i \in 1..Len(s) : s[i] = c /\ \A j \in (i+1)..Len(s) : s[j] # c
    ELSE 0

\* s.rfind(p, 0) == 0: s begins with p
starts_with(s, p) ==
    /\ Len(p) <= Len(s)
    /\ SubSeq(s, 1, Len(p)) = p

\* s.find(p) != npos for a string p
contains(s, p) ==
    \E i \in 1..(Len(s) - Len(p) + 1) : SubSeq(s, i, i + Len(p) - 1) = p

\* trim: drop leading and trailing " \t\n\r"
trim(input) ==
    LET keep == {i \in 1..Len(input) : input[i] \notin Whitespace}
    IN IF keep = {} THEN <<>>
       ELSE LET start == CHOOSE i \in keep : \A j \in keep : i <= j
                end   == CHOOSE i \in keep : \A j \in keep : j <= i
            IN SubSeq(input, start, end)

(***************************************************************************)
(* URL utilities                                                           *)
(***************************************************************************)
SchemeChars == Letters \cup Digits \cup {"+", ".", "-"}

NoUrl == [ok |-> FALSE, scheme |-> <<>>, host |-> <<>>, path |-> <<>>]

\* the match of parse_url as UrlParts: scheme and host lowercased, the path
\* "/" when the third group did not match; '.' matches no line terminator
url_parts(scheme, rest, slash) ==
    IF slash # 0 /\ \E i \in slash..Len(rest) : rest[i] \in {"\n", "\r"}
    THEN NoUrl
    ELSE [ok     |-> TRUE,
          scheme |-> to_lower(scheme),
          host   |-> to_lower(IF slash = 0 THEN rest
                              ELSE SubSeq(rest, 1, slash - 1)),
          path   |-> IF slash = 0 THEN <<"/">>
                     ELSE SubSeq(rest, slash, Len(rest))]

\* std::regex_match of ^([a-zA-Z][a-zA-Z0-9+.-]*)://([^/]+)(/.*)?$ on a
\* string whose first ':' is at colon
regex_match(u, colon) ==
    IF \/ colon < 2
       \/ u[1] \notin Letters
       \/ \E i \in 2..(colon-1) : u[i] \notin SchemeChars
       \/ Len(u) < colon + 3
       \/ u[colon+1] # "/" \/ u[colon+2] # "/"
       \/ u[colon+3] = "/"
    THEN NoUrl
    ELSE url_parts(SubSeq(u, 1, colon - 1), SubSeq(u, colon + 3, Len(u)),
                   find(SubSeq(u, colon + 3, Len(u)), "/"))

\* parse_url
parse_url(u) == regex_match(u, find(u, ":"))

\* s.substr(0, pos) when pos is a position, s itself on npos
before(s, pos) == IF pos # 0 THEN SubSeq(s, 1, pos - 1) ELSE s

\* s.substr(pos + 1) when pos is a position, s itself on npos
after(s, pos) == IF pos # 0 THEN SubSeq(s, pos + 1, Len(s)) ELSE s

\* strip_fragment: everything before the first '#'
strip_fragment(u) == before(u, find(u, "#"))

MAILTO == <<"m","a","i","l","t","o",":">>
JAVASCRIPT == <<"j","a","v","a","s","c","r","i","p","t",":">>
HTTP == <<"h","t","t","p",":","/","/">>
HTTPS == <<"h","t","t","p","s",":","/","/">>

\* make_absolute once href is trimmed and base_url is parsed
resolve(base_parts, link) ==
    IF link = <<>> THEN <<>>
    ELSE IF starts_with(link, MAILTO) \/ starts_with(link, JAVASCRIPT) THEN <<>>
    ELSE IF starts_with(link, HTTP) \/ starts_with(link, HTTPS)
         THEN strip_fragment(link)
    ELSE IF starts_with(link, <<"/","/">>)
         THEN IF ~base_parts.ok THEN <<>>
              ELSE base_parts.scheme \o <<":">> \o strip_fragment(link)
    ELSE IF ~base_parts.ok THEN <<>>
    ELSE base_parts.scheme \o <<":","/","/">> \o base_parts.host
         \o (IF link[1] = "/" THEN link
             ELSE (IF find_last_of(base_parts.path, "/") = 0 THEN <<"/">>
                   ELSE SubSeq(base_parts.path, 1,
                               find_last_of(base_parts.path, "/")))
                  \o link)

\* make_absolute: resolve href against base_url; <<>> when unresolvable
make_absolute(base_url, href) == resolve(parse_url(base_url), trim(href))

\* filename.substr(dot) lowercased, <<>> on npos
lowered_from(filename, dot) ==
    IF dot = 0 THEN <<>> ELSE to_lower(SubSeq(filename, dot, Len(filename)))

\* the extension of a file name: from its last '.'
suffix(filename) == lowered_from(filename, find_last_of(filename, "."))

\* the part of clean after its last '/'
last_segment(clean) == after(clean, find_last_of(clean, "/"))

\* clean without its query
strip_query(clean) == before(clean, find(clean, "?"))

\* extension_from_url: the lowercased suffix from the last '.' of the last
\* path segment, after dropping fragment and query; <<>> when there is none
extension_from_url(u) == suffix(last_segment(strip_query(strip_fragment(u))))

\* a string as a list: empty for the empty string
if_any(s) == IF s = <<>> THEN <<>> ELSE <<s>>

\* extract_links: the hrefs of a body in document order, made absolute,
\* the unresolvable ones dropped.  A body is modelled by its list of hrefs.
RECURSIVE extract_links(_, _)
extract_links(hrefs, base_url) ==
    IF hrefs = <<>> THEN <<>>
    ELSE if_any(make_absolute(base_url, Head(hrefs)))
         \o extract_links(Tail(hrefs), base_url)

\* std::regex_replace(file_name, "[^A-Za-z0-9._-]+", "_"): every maximal run
\* of characters outside the class becomes one '_'
FileChars == Letters \cup Digits \cup {".", "_", "-"}

RECURSIVE replace_invalid(_, _)
replace_invalid(s, in_run) ==
    IF s = <<>> THEN <<>>
    ELSE IF Head(s) \in FileChars
         THEN <<Head(s)>> \o replace_invalid(Tail(s), FALSE)
         ELSE (IF in_run THEN <<>> ELSE <<"_">>) \o replace_invalid(Tail(s), TRUE)

MaxFileName == 240

\* path, "/index" for an empty path and for "/"
path_or_index(path) ==
    IF path = <<>> \/ path = <<"/">> THEN <<"/","i","n","d","e","x">> ELSE path

\* std::replace(safe.begin(), safe.end(), '/', '_')
replace_slashes(safe) ==
    [i \in 1..Len(safe) |-> IF safe[i] = "/" THEN "_" ELSE safe[i]]

\* file_name += extension unless it is empty or found in file_name
with_extension(file_name, extension) ==
    IF extension # <<>> /\ ~contains(file_name, extension)
    THEN file_name \o extension ELSE file_name

\* file_name.substr(0, 240) when it is longer
truncate(file_name) ==
    IF Len(file_name) > MaxFileName THEN SubSeq(file_name, 1, MaxFileName)
    ELSE file_name

\* sanitize_filename
sanitize_filename(parts, extension, prefix) ==
    truncate(replace_invalid(
        with_extension(prefix \o <<"_","_">> \o parts.host
                       \o replace_slashes(path_or_index(parts.path)),
                       extension),
        FALSE))

(***************************************************************************)
(* Configuration (struct Config) and the web the Fetcher sees              *)
(***************************************************************************)
Threads == 2

Workers == 1..Threads

HostE == <<"e",".","t">>
HostEUpper == <<"E",".","T">>
HostO == <<"o",".","t">>

allowed_domains == {HostE}

allowed_extensions == {<<".","h","t","m","l">>, <<".","p","d","f">>}

TEXT_HTML == <<"t","e","x","t","/","h","t","m","l">>
IMAGE_PNG == <<"i","m","a","g","e","/","p","n","g">>

UrlA == HTTP \o HostE \o <<"/","a">>
UrlAUpper == <<"H","T","T","P",":","/","/">> \o HostEUpper \o <<"/","a">>
UrlB == HTTP \o HostE \o <<"/","b">>
UrlBUpper == HTTP \o HostEUpper \o <<"/","b">>
UrlC == HTTP \o HostE \o <<"/","c",".","p","d","f">>
UrlD == HTTP \o HostE \o <<"/","d">>
UrlPng == HTTP \o HostE \o <<"/","i",".","p","n","g">>
UrlOther == HTTP \o HostO \o <<"/","x">>

\* The pages of the site, by lowercased host and path.  A body is the list
\* of the href values it holds; a page that is absent here fails to load,
\* as /c.pdf and /d do.
Site ==
    (<<HostE, <<"/","a">>>> :>
        [content_type |-> <<"T","e","x","t","/","H","T","M","L">>,
         hrefs |-> << <<"/","b">>,
                      <<"c",".","p","d","f","#","p">>,
                      UrlBUpper,
                      UrlOther >>])
 @@ (<<HostE, <<"/","b">>>> :>
        [content_type |-> <<>>,
         hrefs |-> << <<"c",".","p","d","f">>, <<"/","i",".","p","n","g">>,
                      MAILTO \o <<"x">> >>])
 @@ (<<HostE, <<"/","i",".","p","n","g">>>> :>
        [content_type |-> IMAGE_PNG, hrefs |-> <<>>])
 @@ (<<HostO, <<"/","x">>>> :>
        [content_type |-> TEXT_HTML, hrefs |-> << <<"/","y">> >>])

\* the transfer of the page at parts
transfer(parts) ==
    IF parts.ok /\ <<parts.host, parts.path>> \in DOMAIN Site
    THEN [empty |-> FALSE, hrefs |-> Site[<<parts.host, parts.path>>].hrefs,
          content_type |-> Site[<<parts.host, parts.path>>].content_type]
    ELSE [empty |-> TRUE, hrefs |-> <<>>, content_type |-> <<>>]

\* fetch_url: the body and content type of the page, an empty body when the
\* transfer fails.  The transport resolves scheme and host case-insensitively.
fetch_url(u) == transfer(parse_url(u))

StartUrls == {UrlAUpper \o <<"#","t","o","p">>, UrlOther, UrlPng, UrlD}

MaxPagesChoices == {-1, 0, 1, 2}


(***************************************************************************)
(* ParallelCrawler                                                         *)
(***************************************************************************)
VARIABLES
    config_,            \* start_url and max_pages of the run
    started,            \* run() has seeded the frontier and opened the parallel region
    frontier_,          \* std::queue<std::string>
    visited_,           \* std::unordered_set<std::string>
    queued_,            \* std::unordered_set<std::string>
    queue_mutex_,       \* 0 when free, else the worker holding it
    visited_mutex_,
    metadata_mutex_,
    pages_downloaded_,  \* std::atomic<long>
    active_workers_,    \* std::atomic<long>
    stop,               \* std::atomic<bool> of run()
    metadata,           \* rows of metadata.tsv after the header
    artifacts,          \* bag of artifact paths: how often each file was written
    pc,                 \* position of each worker in the loop of run()
    url,                \* the url local of each worker
    links,              \* links of the page a worker still has to offer
    keep_running,       \* what process_url will return
    prior_rows,         \* number of rows the ledger held before the run
    claimed,            \* history: bag of urls popped from the frontier
    fetched,            \* history: bag of urls handed to fetch_url
    pushed,             \* history: bag of urls pushed onto the frontier
    seeded,             \* history: urls pushed by run() itself
    rejected,           \* history: urls enqueue_url found in visited_ or queued_
    quiesced            \* history: stop was set on an empty frontier with no active worker

vars == <<config_, started, frontier_, visited_, queued_, queue_mutex_,
          visited_mutex_, metadata_mutex_, pages_downloaded_, active_workers_,
          stop, metadata, artifacts, pc, url, links, keep_running, prior_rows,
          claimed, fetched, pushed, seeded, rejected, quiesced>>

shared == <<frontier_, visited_, queued_, queue_mutex_, visited_mutex_,
            metadata_mutex_, pages_downloaded_, active_workers_, stop,
            metadata, artifacts>>

history == <<claimed, fetched, pushed, seeded, rejected, quiesced>>

\* is_allowed_domain without the comparison of the host
is_allowed_domain_any_host(u) == parse_url(u).ok

\* is_allowed_domain
is_allowed_domain(u) ==
    \E parts \in {parse_url(u)} :
        /\ parts.ok
        /\ \E domain \in allowed_domains : parts.host = to_lower(domain)

\* should_enqueue without the test of the extension
should_enqueue_any_extension(u) ==
    \E normalized \in {strip_fragment(u)} :
        normalized # <<>> /\ is_allowed_domain(normalized)

\* should_enqueue (query_indicates_download is evaluated there and its
\* result is not used)
should_enqueue(u) ==
    \E normalized \in {strip_fragment(u)} :
        /\ normalized # <<>>
        /\ is_allowed_domain(normalized)
        /\ \E ext \in {extension_from_url(normalized)} :
               ext # <<>> => ext \in allowed_extensions

\* enqueue_url up to its lock: the string it goes on with, <<>> on return
enqueue_normalized(u) ==
    IF strip_fragment(u) = <<>> \/ ~is_allowed_domain(strip_fragment(u))
    THEN <<>> ELSE strip_fragment(u)

\* the limit tests with > for >=
limit_reached_past(count) ==
    config_.max_pages >= 0 /\ count > config_.max_pages

\* the limit tests one page early
limit_reached_early(count) ==
    config_.max_pages >= 0 /\ count + 1 >= config_.max_pages

\* the two limit tests of process_url, on the loaded and on the new count
limit_reached(count) ==
    config_.max_pages >= 0 /\ count >= config_.max_pages

\* the classification and the path of process_url
is_html(content_type) ==
    contains(to_lower(content_type), TEXT_HTML) \/ content_type = <<>>

\* the extension handed to sanitize_filename for a file: ".bin" for none
ext_or_bin(ext) == IF ext = <<>> THEN <<".","b","i","n">> ELSE ext

saved_path(u, content_type) ==
    IF is_html(content_type)
    THEN [dir |-> "html",
          name |-> sanitize_filename(parse_url(u), <<".","h","t","m","l">>,
                                     <<"h","t","m","l">>)]
    ELSE [dir |-> "files",
          name |-> sanitize_filename(parse_url(u),
                                     ext_or_bin(extension_from_url(u)),
                                     <<"f","i","l","e">>)]

\* the row process_url appends for u fetched with content_type
ledger_row(u, content_type) ==
    [url |-> u,
     path |-> saved_path(u, content_type),
     content_type |-> to_lower(content_type)]

metadata_row(u) == ledger_row(u, fetch_url(u).content_type)

\* the links of a list that pass should_enqueue and the tests enqueue_url
\* makes before it locks, in the form enqueue_url goes on with
RECURSIVE offered(_)
offered(all) ==
    IF all = <<>> THEN <<>>
    ELSE (IF should_enqueue(Head(all))
          THEN if_any(enqueue_normalized(Head(all))) ELSE <<>>)
         \o offered(Tail(all))

\* the link loop of process_url on a fetched page
links_of(u, result) ==
    IF is_html(result.content_type)
    THEN offered(extract_links(result.hrefs, u)) ELSE <<>>

\* process_url: extract_links on an html body, and of its links those that
\* reach the lock of enqueue_url, in document order
links_to_offer(u) == links_of(u, fetch_url(u))

Range(s) == {s[i] : i \in 1..Len(s)}

\* The strings that can reach the frontier: the seeds and the links of the
\* pages at up to four links from a seed (no page of Site is further away).
LinksOf(S) == S \cup UNION {Range(links_to_offer(e)) : e \in S}

Urls0 == {enqueue_normalized(s) : s \in StartUrls} \ {<<>>}
Urls1 == LinksOf(Urls0)
Urls2 == LinksOf(Urls1)
Urls3 == LinksOf(Urls2)
Urls == LinksOf(Urls3)

\* a function as an explicit table of its values
Table(f) == f @@ <<>>

\* What process_url computes from a url and the result of its fetch
processed(u, result) ==
    [empty |-> result.empty,
     path  |-> saved_path(u, result.content_type),
     row   |-> ledger_row(u, result.content_type),
     links |-> links_of(u, result)]

\* process_url tabulated once per url
Processed == Table([u \in Urls |-> processed(u, fetch_url(u))])

\* What enqueue_url makes of the seed, per configured start_url
Seed == Table([s \in StartUrls |-> enqueue_normalized(s)])

\* The ledger the constructor finds: none (it writes the header), or the one
\* an earlier run over the same output directory left.
PriorLedgers(start_url) ==
    {<<>>} \cup {<<metadata_row(seed)>> :
                    seed \in {s \in {strip_fragment(start_url)} :
                                 ~fetch_url(s).empty /\ is_allowed_domain(s)}}

Init ==
    /\ config_ \in [start_url : StartUrls, max_pages : MaxPagesChoices]
    /\ started = FALSE
    /\ frontier_ = <<>>
    /\ visited_ = {}
    /\ queued_ = {}
    /\ queue_mutex_ = 0
    /\ visited_mutex_ = 0
    /\ metadata_mutex_ = 0
    /\ pages_downloaded_ = 0
    /\ active_workers_ = 0
    /\ stop = FALSE
    /\ metadata \in PriorLedgers(config_.start_url)
    /\ prior_rows = Len(metadata)
    /\ artifacts = EmptyBag
    /\ pc = [w \in Workers |-> "loop"]
    /\ url = [w \in Workers |-> <<>>]
    /\ links = [w \in Workers |-> <<>>]
    /\ keep_running = [w \in Workers |-> TRUE]
    /\ claimed = EmptyBag
    /\ fetched = EmptyBag
    /\ pushed = EmptyBag
    /\ seeded = {}
    /\ rejected = {}
    /\ quiesced = FALSE

Add(bag, e) == bag (+) SetToBag({e})

\* an enqueue_url without the test
known_never(normalized) == FALSE

\* the test of enqueue_url with queued_ left out, and with visited_ left out
known_visited_only(normalized) == normalized \in visited_

known_queued_only(normalized) == normalized \in queued_

\* enqueue_url: visited_.count(normalized) > 0 || queued_.count(normalized) > 0
known(normalized) == normalized \in visited_ \/ normalized \in queued_

\* the quiescence test without the look at active_workers_
no_active_workers_unchecked == TRUE

\* run(): active_workers_.load() == 0, under queue_mutex_ on an empty frontier
no_active_workers == active_workers_ = 0

\* a fetch_sub that takes two off the counter
fetch_sub_twice(n) == n - 2

\* a fetch_sub that leaves the counter alone
fetch_sub_lost(n) == n

\* decrement_active: the counter after fetch_sub(1)
fetch_sub(n) == n - 1

\* a mark_visited that leaves queued_ alone
erase_nothing(set, e) == set

\* mark_visited: queued_.erase(url)
erase(set, e) == set \ {e}

\* an enqueue_url that leaves the frontier alone
push_lost(queue, e) == queue

\* enqueue_url: frontier_.push(normalized)
push(queue, e) == Append(queue, e)

\* a mark_visited that does not record the url
insert_nothing(set, e) == set

\* mark_visited: visited_.insert(url)
insert(set, e) == set \cup {e}

\* a fetch_add that counts a page twice
fetch_add_twice(n) == n + 2

\* the counter after fetch_add(1), of pages_downloaded_ and of active_workers_
fetch_add(n) == n + 1

\* a process_url that writes no artifact
write_nothing(files, path) == files

\* process_url: std::ofstream out(saved_path); out << result.body
write(files, path) == Add(files, path)

\* a process_url that goes on with an empty body
body_empty_ignored(result) == FALSE

\* process_url: result.body.empty(), and the url that does not parse
body_empty(result) == result.empty

\* a lock_guard that keeps its mutex when it goes out of scope
unlock_lost(holder) == holder

\* the end of the scope of a std::lock_guard held by holder: the mutex is free
unlock(holder) == 0

\* run(), before the parallel region: enqueue_url(config_.start_url)
RunStart ==
    /\ ~started
    /\ started' = TRUE
    /\ LET normalized == Seed[config_.start_url]
       IN IF normalized = <<>>
          THEN UNCHANGED <<frontier_, queued_, pushed, seeded, rejected>>
          ELSE IF known(normalized)
          THEN /\ rejected' = rejected \cup {normalized}
               /\ UNCHANGED <<frontier_, queued_, pushed, seeded>>
          ELSE /\ queued_' = queued_ \cup {normalized}
               /\ frontier_' = push(frontier_, normalized)
               /\ pushed' = Add(pushed, normalized)
               /\ seeded' = seeded \cup {normalized}
               /\ UNCHANGED rejected
    /\ UNCHANGED <<config_, visited_, queue_mutex_, visited_mutex_,
                   metadata_mutex_, pages_downloaded_, active_workers_, stop,
                   metadata, artifacts, pc, url, links, keep_running,
                   prior_rows, claimed, fetched, quiesced>>

\* top of the loop: if (stop.load()) break;
LoopTop(w) ==
    /\ started /\ pc[w] = "loop"
    /\ pc' = [pc EXCEPT ![w] = IF stop THEN "done" ELSE "lock_queue"]
    /\ UNCHANGED <<config_, started, shared, url, links, keep_running,
                   prior_rows, history>>

\* std::lock_guard<std::mutex> lock(queue_mutex_) in run()
LockQueue(w) ==
    /\ pc[w] = "lock_queue" /\ queue_mutex_ = 0
    /\ queue_mutex_' = w
    /\ pc' = [pc EXCEPT ![w] = "claim"]
    /\ UNCHANGED <<config_, started, frontier_, visited_, queued_,
                   visited_mutex_, metadata_mutex_, pages_downloaded_,
                   active_workers_, stop, metadata, artifacts, url, links,
                   keep_running, prior_rows, history>>

\* the critical section of run(): pop and fetch_add, or the quiescence test
Claim(w) ==
    /\ pc[w] = "claim"
    /\ queue_mutex_' = unlock(w)
    /\ IF frontier_ # <<>>
       THEN /\ url' = [url EXCEPT ![w] = Head(frontier_)]
            /\ frontier_' = Tail(frontier_)
            /\ active_workers_' = fetch_add(active_workers_)
            /\ claimed' = Add(claimed, Head(frontier_))
            /\ pc' = [pc EXCEPT ![w] = "lock_visited"]
            /\ UNCHANGED <<stop, quiesced>>
       ELSE IF no_active_workers
       THEN /\ stop' = TRUE
            /\ quiesced' = TRUE
            /\ pc' = [pc EXCEPT ![w] = "done"]
            /\ UNCHANGED <<url, frontier_, active_workers_, claimed>>
       ELSE /\ pc' = [pc EXCEPT ![w] = "loop"]
            /\ UNCHANGED <<url, frontier_, active_workers_, claimed, stop, quiesced>>
    /\ UNCHANGED <<config_, started, visited_, queued_, visited_mutex_,
                   metadata_mutex_, pages_downloaded_, metadata, artifacts,
                   links, keep_running, prior_rows, fetched, pushed, seeded,
                   rejected>>

\* mark_visited: std::lock_guard<std::mutex> lock(visited_mutex_)
LockVisited(w) ==
    /\ pc[w] = "lock_visited" /\ visited_mutex_ = 0
    /\ visited_mutex_' = w
    /\ pc' = [pc EXCEPT ![w] = "mark_visited"]
    /\ UNCHANGED <<config_, started, frontier_, visited_, queued_,
                   queue_mutex_, metadata_mutex_, pages_downloaded_,
                   active_workers_, stop, metadata, artifacts, url, links,
                   keep_running, prior_rows, history>>

\* mark_visited: insert into visited_, erase from queued_ when inserted.
\* When it returns false run() calls decrement_active() and continues, which
\* is the path after a process_url that returned true.
MarkVisited(w) ==
    /\ pc[w] = "mark_visited"
    /\ LET inserted == url[w] \notin visited_
       IN /\ visited_' = insert(visited_, url[w])
          /\ queued_' = IF inserted THEN erase(queued_, url[w]) ELSE queued_
          /\ pc' = [pc EXCEPT ![w] = IF inserted THEN "limit" ELSE "decrement"]
          /\ keep_running' = [keep_running EXCEPT ![w] = TRUE]
    /\ visited_mutex_' = unlock(w)
    /\ UNCHANGED <<config_, started, frontier_, queue_mutex_,
                   metadata_mutex_, pages_downloaded_, active_workers_, stop,
                   metadata, artifacts, url, links, prior_rows, history>>


\* process_url: the limit test on entry
Limit(w) ==
    /\ pc[w] = "limit"
    /\ IF limit_reached(pages_downloaded_)
       THEN /\ keep_running' = [keep_running EXCEPT ![w] = FALSE]
            /\ pc' = [pc EXCEPT ![w] = "decrement"]
       ELSE /\ pc' = [pc EXCEPT ![w] = "fetch"]
            /\ UNCHANGED keep_running
    /\ UNCHANGED <<config_, started, shared, url, links, prior_rows, history>>

\* process_url: fetch_url, the return on an empty body or an unparsable url,
\* and else the write of the artifact
Fetch(w) ==
    /\ pc[w] = "fetch"
    /\ fetched' = Add(fetched, url[w])
    /\ LET result == Processed[url[w]]
       IN IF body_empty(result)
          THEN /\ keep_running' = [keep_running EXCEPT ![w] = TRUE]
               /\ pc' = [pc EXCEPT ![w] = "decrement"]
               /\ UNCHANGED artifacts
          ELSE /\ artifacts' = write(artifacts, result.path)
               /\ pc' = [pc EXCEPT ![w] = "lock_metadata"]
               /\ UNCHANGED keep_running
    /\ UNCHANGED <<config_, started, frontier_, visited_, queued_,
                   queue_mutex_, visited_mutex_, metadata_mutex_,
                   pages_downloaded_, active_workers_, stop, metadata, url,
                   links, prior_rows, claimed, pushed, seeded, rejected,
                   quiesced>>

\* process_url: std::lock_guard<std::mutex> lock(metadata_mutex_)
LockMetadata(w) ==
    /\ pc[w] = "lock_metadata" /\ metadata_mutex_ = 0
    /\ metadata_mutex_' = w
    /\ pc' = [pc EXCEPT ![w] = "append_row"]
    /\ UNCHANGED <<config_, started, frontier_, visited_, queued_,
                   queue_mutex_, visited_mutex_, pages_downloaded_,
                   active_workers_, stop, metadata, artifacts, url, links,
                   keep_running, prior_rows, history>>

\* process_url: the row appended to metadata.tsv
AppendRow(w) ==
    /\ pc[w] = "append_row"
    /\ metadata' = Append(metadata, Processed[url[w]].row)
    /\ metadata_mutex_' = unlock(w)
    /\ pc' = [pc EXCEPT ![w] = "count"]
    /\ UNCHANGED <<config_, started, frontier_, visited_, queued_,
                   queue_mutex_, visited_mutex_, pages_downloaded_,
                   active_workers_, stop, artifacts, url, links,
                   keep_running, prior_rows, history>>

\* process_url: pages_downloaded_.fetch_add(1), then the links of an html
\* body.  The return value is decided by the new count.
Count(w) ==
    /\ pc[w] = "count"
    /\ pages_downloaded_' = fetch_add(pages_downloaded_)
    /\ keep_running' = [keep_running EXCEPT ![w] = ~limit_reached(fetch_add(pages_downloaded_))]
    /\ links' = [links EXCEPT ![w] = Processed[url[w]].links]
    /\ pc' = [pc EXCEPT ![w] = "offer"]
    /\ UNCHANGED <<config_, started, frontier_, visited_, queued_,
                   queue_mutex_, visited_mutex_, metadata_mutex_,
                   active_workers_, stop, metadata, artifacts, url,
                   prior_rows, history>>

\* the loop over the links: enqueue_url takes visited_mutex_ for the next
\* link, or the loop is over and process_url returns
Offer(w) ==
    /\ pc[w] = "offer"
    /\ IF links[w] = <<>>
       THEN /\ pc' = [pc EXCEPT ![w] = "decrement"]
            /\ UNCHANGED visited_mutex_
       ELSE /\ visited_mutex_ = 0
            /\ visited_mutex_' = w
            /\ pc' = [pc EXCEPT ![w] = "dedup"]
    /\ UNCHANGED <<config_, started, frontier_, visited_, queued_,
                   queue_mutex_, metadata_mutex_, pages_downloaded_,
                   active_workers_, stop, metadata, artifacts, url, links,
                   keep_running, prior_rows, history>>

\* enqueue_url under visited_mutex_: return on a known url, else insert it
\* into queued_
Dedup(w) ==
    /\ pc[w] = "dedup"
    /\ LET normalized == Head(links[w])
       IN IF known(normalized)
          THEN /\ rejected' = rejected \cup {normalized}
               /\ visited_mutex_' = unlock(w)
               /\ links' = [links EXCEPT ![w] = Tail(links[w])]
               /\ pc' = [pc EXCEPT ![w] = "offer"]
               /\ UNCHANGED queued_
          ELSE /\ queued_' = queued_ \cup {normalized}
               /\ pc' = [pc EXCEPT ![w] = "lock_push"]
               /\ UNCHANGED <<rejected, visited_mutex_, links>>
    /\ UNCHANGED <<config_, started, frontier_, visited_, queue_mutex_,
                   metadata_mutex_, pages_downloaded_, active_workers_, stop,
                   metadata, artifacts, url, keep_running, prior_rows,
                   claimed, fetched, pushed, seeded, quiesced>>

\* enqueue_url: std::lock_guard<std::mutex> qlock(queue_mutex_), with
\* visited_mutex_ held
LockPush(w) ==
    /\ pc[w] = "lock_push" /\ queue_mutex_ = 0
    /\ queue_mutex_' = w
    /\ pc' = [pc EXCEPT ![w] = "push"]
    /\ UNCHANGED <<config_, started, frontier_, visited_, queued_,
                   visited_mutex_, metadata_mutex_, pages_downloaded_,
                   active_workers_, stop, metadata, artifacts, url, links,
                   keep_running, prior_rows, history>>

\* enqueue_url: frontier_.push(normalized), then both guards are released
Push(w) ==
    /\ pc[w] = "push"
    /\ frontier_' = push(frontier_, Head(links[w]))
    /\ pushed' = Add(pushed, Head(links[w]))
    /\ queue_mutex_' = unlock(w)
    /\ visited_mutex_' = unlock(w)
    /\ links' = [links EXCEPT ![w] = Tail(links[w])]
    /\ pc' = [pc EXCEPT ![w] = "offer"]
    /\ UNCHANGED <<config_, started, visited_, queued_, metadata_mutex_,
                   pages_downloaded_, active_workers_, stop, metadata,
                   artifacts, url, keep_running, prior_rows, claimed,
                   fetched, seeded, rejected, quiesced>>

\* decrement_active() in run(): fetch_sub(1), then store(0) as a second
\* atomic operation when the result is negative; after it the worker sets
\* the stop flag when process_url returned false, else it continues
Decrement(w) ==
    /\ pc[w] \in {"decrement", "clamp"}
    /\ LET remaining == fetch_sub(active_workers_)
           next == IF keep_running[w] THEN "loop" ELSE "store_stop"
       IN IF pc[w] = "decrement"
          THEN /\ active_workers_' = remaining
               /\ pc' = [pc EXCEPT ![w] = IF remaining < 0 THEN "clamp" ELSE next]
          ELSE /\ active_workers_' = 0
               /\ pc' = [pc EXCEPT ![w] = next]
    /\ UNCHANGED <<config_, started, frontier_, visited_, queued_,
                   queue_mutex_, visited_mutex_, metadata_mutex_,
                   pages_downloaded_, stop, metadata, artifacts, url, links,
                   keep_running, prior_rows, history>>

\* run(): if (!keep_running) { stop.store(true); break; }
StoreStop(w) ==
    /\ pc[w] = "store_stop"
    /\ stop' = TRUE
    /\ pc' = [pc EXCEPT ![w] = "done"]
    /\ UNCHANGED <<config_, started, frontier_, visited_, queued_,
                   queue_mutex_, visited_mutex_, metadata_mutex_,
                   pages_downloaded_, active_workers_, metadata, artifacts,
                   url, links, keep_running, prior_rows, history>>

Worker(w) ==
    \/ LoopTop(w) \/ LockQueue(w) \/ Claim(w) \/ LockVisited(w)
    \/ MarkVisited(w) \/ Limit(w) \/ Fetch(w) \/ LockMetadata(w)
    \/ AppendRow(w) \/ Count(w) \/ Offer(w) \/ Dedup(w) \/ LockPush(w)
    \/ Push(w) \/ Decrement(w) \/ StoreStop(w)

Next == RunStart \/ \E w \in Workers : Worker(w)

Spec == Init /\ [][Next]_vars

\* The workers are threads of one parallel region and every mutex is handed
\* to a thread that keeps asking for it: each worker's step is strongly fair.
FairSpec ==
    /\ Init /\ [][Next]_vars
    /\ WF_vars(RunStart)
    /\ \A w \in Workers : SF_vars(Worker(w))

AllExited == \A w \in Workers : pc[w] = "done"

\* C3: every run terminates: the stop flag is eventually set and every worker
\* eventually leaves its loop
C3_Terminates == <>(stop /\ AllExited)


(***************************************************************************)
(* Properties                                                              *)
(***************************************************************************)
Claimed == BagToSet(claimed)
Fetched == BagToSet(fetched)
Pushed == BagToSet(pushed)

Count1(bag, e) == IF e \in BagToSet(bag) THEN CopiesIn(e, bag) ELSE 0

\* a worker between its pop and the end of its decrement_active
Holding(w) ==
    pc[w] \in {"lock_visited", "mark_visited", "limit", "fetch",
               "lock_metadata", "append_row", "count", "offer", "dedup",
               "lock_push", "push", "decrement", "clamp"}

\* the rows this run appended to the ledger
NewRows == {metadata[i] : i \in (prior_rows + 1)..Len(metadata)}

\* C1: no url is popped from the frontier more than once, and none is pushed
\* more than once: a url offered again while it is queued, being processed
\* or processed is rejected
C1_ClaimedOnce ==
    /\ \A e \in Claimed : CopiesIn(e, claimed) = 1
    /\ \A e \in Pushed : CopiesIn(e, pushed) = 1
    /\ \A v, w \in Workers : v # w /\ Holding(v) /\ Holding(w) => url[v] # url[w]

\* a url that was offered again and rejected, claimed once, while two workers
\* hold urls
C1_Witness ==
    /\ \E e \in rejected : Count1(claimed, e) = 1
    /\ \E v, w \in Workers : v # w /\ Holding(v) /\ Holding(w)

\* C2: once a worker has set the stop flag on an empty frontier with
\* active_workers_ = 0, no worker holds a url, the frontier is and stays empty
\* and active_workers_ is and stays 0
C2_Quiescent ==
    quiesced => /\ frontier_ = <<>>
                /\ active_workers_ = 0
                /\ \A w \in Workers : ~Holding(w)

\* a run of several pages that ended by quiescence
C2_Witness ==
    /\ quiesced /\ AllExited
    /\ Cardinality(Claimed) > 1

\* a terminated run in which pages were fetched by workers that found the
\* frontier empty in between
C3_Witness ==
    /\ stop /\ AllExited
    /\ Cardinality(Fetched) > 1

\* C4 as stated: when all workers have exited, every url that was accepted has
\* been claimed and fetched exactly once, whatever max_pages is
C4_Original ==
    AllExited => \A e \in Pushed : Count1(claimed, e) = 1 /\ Count1(fetched, e) = 1

\* C4 amended: a url is claimed only after it was accepted, at most once, and
\* fetched only after it was claimed, at most once; without a page limit
\* every accepted url has been claimed and fetched exactly once when all
\* workers have exited
C4_Amended ==
    /\ \A e \in Claimed : CopiesIn(e, claimed) = 1 /\ e \in Pushed
    /\ \A e \in Fetched : CopiesIn(e, fetched) = 1 /\ e \in Claimed
    /\ AllExited /\ config_.max_pages < 0
         => \A e \in Pushed : Count1(claimed, e) = 1 /\ Count1(fetched, e) = 1

\* an unlimited run that is over, with several urls accepted and one rejected
C4_Witness ==
    /\ AllExited /\ config_.max_pages < 0
    /\ Cardinality(Pushed) > 1
    /\ rejected # {}

\* C5: with a page limit, pages_downloaded_ <= max_pages + threads - 1
C5_PageBound ==
    config_.max_pages >= 0
        => pages_downloaded_ <= config_.max_pages + Threads - 1

\* the bound is reached: every worker was past the test on entry when the
\* limit was reached
C5_Witness ==
    /\ config_.max_pages >= 1
    /\ pages_downloaded_ = config_.max_pages + Threads - 1

\* C6: the stop flag is set only at quiescence or at the page limit, and a
\* run that ends below the limit (or has none) ends with an empty frontier
\* and every accepted url claimed
C6_NoEarlyStop ==
    LET below == config_.max_pages < 0 \/ pages_downloaded_ < config_.max_pages
    IN /\ stop /\ below => quiesced
       /\ AllExited /\ below
            => frontier_ = <<>> /\ \A e \in Pushed : e \in Claimed

\* a run with a page limit that ended below it after it fetched something
C6_Witness ==
    /\ AllExited
    /\ config_.max_pages >= 0 /\ pages_downloaded_ < config_.max_pages
    /\ Fetched # {}

\* C7: no url is in more than one row of the ledger
C7_NoDuplicateRows ==
    \A i, j \in 1..Len(metadata) : i # j => metadata[i].url # metadata[j].url

\* C8: every url that is accepted, fetched or written to the ledger has a
\* host of allowed_domains
HostAllowed(u) == parse_url(u).ok /\ parse_url(u).host \in allowed_domains

C8_AllowedHosts ==
    /\ \A e \in Pushed \cup Fetched : HostAllowed(e)
    /\ \A row \in NewRows : HostAllowed(row.url)

\* the page with the link to the other host was fetched and all its links
\* were handled
C8_Witness ==
    /\ AllExited
    /\ \E e \in Fetched : \E i \in 1..Len(fetch_url(e).hrefs) :
          LET link == make_absolute(e, fetch_url(e).hrefs[i])
          IN link # <<>> /\ parse_url(link).ok /\ ~HostAllowed(link)

ExtensionAllowed(u) ==
    extension_from_url(u) = <<>> \/ extension_from_url(u) \in allowed_extensions

\* C9 as stated: every url that enters the frontier, the seed included, has an
\* empty or an allowed extension
C9_Original == \A e \in Pushed : ExtensionAllowed(e)

\* C9 amended: every url that enters the frontier from a link of a page has an
\* empty or an allowed extension; run() enqueues the seed without that test
C9_Amended == \A e \in Pushed \ seeded : ExtensionAllowed(e)

\* the page that links to a .pdf and to a .png was fetched, all its links
\* were handled and the .pdf was accepted
C9_Witness ==
    /\ AllExited
    /\ \E e \in Pushed \ seeded : extension_from_url(e) # <<>>
    /\ \E e \in Fetched : \E i \in 1..Len(fetch_url(e).hrefs) :
          LET link == make_absolute(e, fetch_url(e).hrefs[i])
          IN link # <<>> /\ HostAllowed(link) /\ ~ExtensionAllowed(link)

\* a string without fragment whose scheme and host are in lower case
Canonical(u) ==
    LET parts == parse_url(u)
        prefix == parts.scheme \o <<":", "/", "/">> \o parts.host
    IN /\ parts.ok
       /\ find(u, "#") = 0
       /\ starts_with(u, prefix)

\* C10: every url that enters the frontier is canonical, and two spellings
\* of a url that differ in the case of scheme or host are fetched at most once
C10_Canonical ==
    /\ \A e \in Pushed : Canonical(e)
    /\ \A e, f \in Fetched :
          parse_url(e) = parse_url(f) => e = f

\* C11: visited_ and queued_ are disjoint in every reachable state
C11_Disjoint == visited_ \cap queued_ = {}

\* a url is visited, another is queued, and a url offered again after it was
\* marked visited was rejected
C11_Witness ==
    /\ queued_ # {}
    /\ \E e \in rejected : e \in visited_
    /\ \E e \in visited_ : Count1(pushed, e) = 1

\* no worker is inside a critical section
NoCriticalSection ==
    queue_mutex_ = 0 /\ visited_mutex_ = 0 /\ metadata_mutex_ = 0

\* the urls a worker has popped and not yet handed to mark_visited
Popped == {url[w] : w \in {v \in Workers : pc[v] = "lock_visited"}}

Accepting == {Head(links[w]) : w \in {v \in Workers : pc[v] \in {"lock_push", "push"}}}

\* C13: a url that enqueue_url has accepted is in queued_ or in visited_ in
\* every later state
C13_NeverInNeither ==
    \A e \in Pushed \cup Accepting : e \in queued_ \/ e \in visited_

\* an accepted url has moved to visited_ while another is in queued_
C13_Witness ==
    /\ \E e \in Pushed : e \in visited_ /\ e \notin queued_
    /\ \E e \in Pushed : e \in queued_ /\ e \notin visited_

\* the workers that have appended their row and not yet counted the page
Counting == {w \in Workers : pc[w] = "count"}

\* the workers inside process_url
Processing ==
    {w \in Workers : pc[w] \in {"limit", "fetch", "lock_metadata", "append_row",
                                "count", "offer", "dedup", "lock_push", "push"}}

\* the number of rows appended in this run lies between pages_downloaded_ and
\* pages_downloaded_ plus the workers inside process_url, and is
\* pages_downloaded_ once all workers have exited
RowsCounted ==
    /\ pages_downloaded_ <= Len(metadata) - prior_rows
    /\ Len(metadata) - prior_rows = pages_downloaded_ + Cardinality(Counting)
    /\ Len(metadata) - prior_rows <= pages_downloaded_ + Cardinality(Processing)
    /\ AllExited => pages_downloaded_ = Len(metadata) - prior_rows

\* C14: pages_downloaded_ never decreases, and it counts the rows appended in
\* this run up to the workers that are inside process_url
C14_CountsRows ==
    /\ []RowsCounted
    /\ [][pages_downloaded_' >= pages_downloaded_]_vars

\* a worker has appended its row and not yet counted it, after another page
\* was counted
C14_Witness ==
    /\ Counting # {}
    /\ pages_downloaded_ >= 1

\* the rows of this run that name the artifact path
RowsOf(path) ==
    {i \in (prior_rows + 1)..Len(metadata) : metadata[i].path = path}

\* the workers that have written their artifact and not yet appended its row
Written == {w \in Workers : pc[w] \in {"lock_metadata", "append_row"}}

\* C15: a row is appended only after the artifact it names was written: the
\* rows of this run that name a path are never more than the writes of that
\* path, and a worker about to append has written the artifact of its url
C15_RowAfterArtifact ==
    /\ \A row \in NewRows :
          Cardinality(RowsOf(row.path)) <= Count1(artifacts, row.path)
    /\ \A w \in Written :
          Cardinality(RowsOf(Processed[url[w]].path))
              < Count1(artifacts, Processed[url[w]].path)

\* an artifact is written and its row is not yet appended, after a row was
\* appended
C15_Witness ==
    /\ Written # {}
    /\ NewRows # {}

\* worker w is about to fetch a url whose fetch fails
Failing(w) == pc[w] = "fetch" /\ Processed[url[w]].empty

\* worker w has had a failed fetch and is about to call decrement_active
Failed(w) ==
    /\ pc[w] = "decrement"
    /\ url[w] \in Fetched
    /\ Processed[url[w]].empty

\* the step of a failed fetch: process_url returns true and nothing is
\* written, appended, counted or enqueued
Abandon ==
    \A w \in Workers :
        Failing(w) /\ pc'[w] # pc[w] =>
            /\ pc'[w] = "decrement" /\ keep_running'[w]
            /\ UNCHANGED <<artifacts, metadata, pages_downloaded_, frontier_,
                           queued_, visited_, stop, active_workers_>>

\* the step after it: one decrement of active_workers_, the stop flag is
\* left alone and the worker is back at the top of its loop
Continue ==
    \A w \in Workers :
        Failed(w) /\ pc'[w] # pc[w] =>
            /\ pc'[w] = "loop"
            /\ active_workers_' = active_workers_ - 1
            /\ UNCHANGED <<artifacts, metadata, pages_downloaded_, frontier_,
                           queued_, visited_, stop>>

\* a url whose fetch failed stays in visited_, is fetched once, has no row
\* and its links are not offered
Abandoned ==
    \A e \in Fetched :
        Processed[e].empty =>
            /\ e \in visited_ /\ e \notin queued_
            /\ CopiesIn(e, fetched) = 1
            /\ \A row \in NewRows : row.url # e
            /\ \A w \in Workers :
                  url[w] = e => pc[w] \notin {"lock_metadata", "append_row",
                                              "count", "offer", "dedup",
                                              "lock_push", "push", "store_stop"}

\* C16: a failed fetch abandons the url and the worker goes on
C16_FailedFetch ==
    /\ []Abandoned
    /\ [][Abandon /\ Continue]_vars

\* a url linked from a page failed to load and a url was fetched after it
C16_Witness ==
    /\ \E e \in Fetched : Processed[e].empty /\ e \notin seeded
    /\ \E w \in Workers : Failed(w) /\ frontier_ # <<>> /\ ~stop
    /\ pages_downloaded_ >= 2

\* C17: no artifact path is written more than once, and two distinct urls
\* that were fetched and saved have distinct artifact paths
C17_ArtifactsDisjoint ==
    /\ \A path \in BagToSet(artifacts) : CopiesIn(path, artifacts) = 1
    /\ \A e, f \in Fetched :
          e # f /\ ~Processed[e].empty /\ ~Processed[f].empty
              => Processed[e].path # Processed[f].path

\* the workers that have popped a url and not yet executed the fetch_sub of
\* decrement_active
Active == {w \in Workers : Holding(w) /\ pc[w] # "clamp"}

\* C18: active_workers_ is the number of workers between their pop and their
\* decrement_active, it stays within 0..threads, the store(0) of
\* decrement_active is never reached, and it is 0 once all workers have exited
C18_ActiveWorkers ==
    /\ active_workers_ = Cardinality(Active)
    /\ active_workers_ >= 0 /\ active_workers_ <= Threads
    /\ \A w \in Workers : pc[w] # "clamp"
    /\ \A w \in Workers : pc[w] = "decrement" => fetch_sub(active_workers_) >= 0
    /\ AllExited => active_workers_ = 0

\* every worker holds a url, one of them about to call decrement_active
C18_Witness ==
    /\ active_workers_ = Threads
    /\ \E w \in Workers : pc[w] = "decrement"

\* worker w waits for a mutex that another worker holds
Blocked(w) ==
    \/ pc[w] \in {"lock_queue", "lock_push"} /\ queue_mutex_ # 0
    \/ pc[w] = "lock_visited" /\ visited_mutex_ # 0
    \/ pc[w] = "offer" /\ links[w] # <<>> /\ visited_mutex_ # 0
    \/ pc[w] = "lock_metadata" /\ metadata_mutex_ # 0

\* C19: the workers never deadlock on the mutexes: while a worker is in its
\* loop, some worker in its loop is not waiting for a mutex; a worker that
\* holds queue_mutex_ or metadata_mutex_ never waits for a mutex, and only a
\* holder of visited_mutex_ waits for queue_mutex_ inside enqueue_url
C19_NoDeadlock ==
    /\ (\E w \in Workers : pc[w] # "done")
          => \E w \in Workers : pc[w] # "done" /\ ~Blocked(w)
    /\ \A w \in Workers :
          /\ queue_mutex_ = w => pc[w] \in {"claim", "push"}
          /\ metadata_mutex_ = w => pc[w] = "append_row"
          /\ visited_mutex_ = w
               => pc[w] \in {"mark_visited", "dedup", "lock_push", "push"}
          /\ pc[w] = "push" => queue_mutex_ = w /\ visited_mutex_ = w
          /\ pc[w] = "claim" => visited_mutex_ # w /\ metadata_mutex_ # w

\* a worker inside enqueue_url holds visited_mutex_ and waits for
\* queue_mutex_, which a worker in the critical section of run() holds
C19_Witness ==
    \E v, w \in Workers :
        /\ pc[v] = "lock_push" /\ visited_mutex_ = v
        /\ pc[w] = "claim" /\ queue_mutex_ = w

\* C20: mark_visited returns true for every url a worker pops: the frontier
\* holds no url of visited_ and no url twice, and a worker that has popped a
\* url and not yet marked it holds a url that is not in visited_ and that no
\* other such worker holds
C20_MarkVisitedSucceeds ==
    /\ \A i \in 1..Len(frontier_) : frontier_[i] \notin visited_
    /\ \A i, j \in 1..Len(frontier_) : i # j => frontier_[i] # frontier_[j]
    /\ \A w \in Workers :
          pc[w] \in {"lock_visited", "mark_visited"} =>
              /\ url[w] \notin visited_
              /\ \A i \in 1..Len(frontier_) : frontier_[i] # url[w]
              /\ \A v \in Workers :
                    v # w /\ pc[v] \in {"lock_visited", "mark_visited"}
                        => url[v] # url[w]

\* a worker is inside mark_visited after a url was offered again and
\* rejected, while another url waits in the frontier
C20_Witness ==
    /\ \E w \in Workers : pc[w] = "mark_visited"
    /\ rejected # {}
    /\ frontier_ # <<>>

====
